---- MODULE Spec2Model ----
(***************************************************************************)
(* Array-backed set types of arena_collections (multiset.rs):              *)
(* MultiSetMut (the builder), MultiSet (frozen, order- and duplicate-      *)
(* preserving) and SortedSet (frozen, sorted, deduplicated).               *)
(*                                                                         *)
(* The three types wrap the association lists of the same crate            *)
(* (AssocListMut, AssocList, SortedAssocList).  A list is a sequence of    *)
(* (element, ()) pairs.  An element is a record [key, tag]: the ordering   *)
(* (Ord) looks at the key only, the tag tells apart two elements that      *)
(* compare equal.  A query is the borrowed form of an element: its key.    *)
(***************************************************************************)
EXTENDS Integers, Sequences, FiniteSets, TLC

\* ---- bounds ----
MaxKey == 2
MaxInserts == 3
PureMaxKey == 6
PureMaxLen == 4
MaxReaders == 2
MaxErrLen == 2
MaxBufLen == 3

Keys == 1..MaxKey
\* two marks are enough to tell apart two elements that compare equal
Tags == {0, 1}
Elems == [key : Keys, tag : Tags]
PureKeys == 1..PureMaxKey
PureElems == [key : PureKeys, tag : {0}]

\* the no-payload marker paired with every element
Unit == "()"

\* T: Borrow<Q>: the borrowed form of an element is its key
Borrow(e) == e.key

\* Q: Ord, the total order on borrowed forms
Cmp(a, b) == IF a < b THEN "Less" ELSE IF b < a THEN "Greater" ELSE "Equal"

\* Option<V>: None is the empty sequence, Some(v) the one-element sequence
None == << >>
Some(v) == << v >>
is_some(o) == Len(o) = 1

\* ---- association-list primitives ----

AssocListMut_new_in == << >>

AssocListMut_insert(vec, key, value) == Append(vec, << key, value >>)

\* position (1-based) of the first match at or after i, 0 when there is none
RECURSIVE Position(_, _, _)
Position(vec, q, i) ==
    IF i > Len(vec) THEN 0
    ELSE IF Cmp(q, Borrow(vec[i][1])) = "Equal" THEN i
    ELSE Position(vec, q, i + 1)

\* position (1-based) of the last match at or before i, 0 when there is none
RECURSIVE RPosition(_, _, _)
RPosition(vec, q, i) ==
    IF i = 0 THEN 0
    ELSE IF Cmp(q, Borrow(vec[i][1])) = "Equal" THEN i
    ELSE RPosition(vec, q, i - 1)

\* linear-scan lookup
AssocList_get(vec, q) ==
    LET i == Position(vec, q, 1)
    IN  IF i = 0 THEN None ELSE Some(vec[i][2])

AssocList_contains_key(vec, q) == is_some(AssocList_get(vec, q))

AssocListMut_contains_key(vec, q) == AssocList_contains_key(vec, q)

\* Vec::remove(idx): drop the entry at idx, shifting the later ones left
VecRemove(vec, idx) ==
    [j \in 1..(Len(vec) - 1) |-> IF j < idx THEN vec[j] ELSE vec[j + 1]]

\* remove the first match in reverse order; yields the new list and Option<V>
AssocListMut_remove(vec, q) ==
    LET i == RPosition(vec, q, Len(vec))
    IN  IF i = 0 THEN [list |-> vec, result |-> None]
        ELSE [list |-> VecRemove(vec, i), result |-> Some(vec[i][2])]

\* Vec::retain over the first n entries: keep the entries that do not match
RECURSIVE Retain(_, _, _)
Retain(vec, q, n) ==
    IF n = 0 THEN << >>
    ELSE IF Cmp(q, Borrow(vec[n][1])) = "Equal" THEN Retain(vec, q, n - 1)
    ELSE Append(Retain(vec, q, n - 1), vec[n])

\* remove all matches; yields the new list and whether the length changed
AssocListMut_remove_all(vec, q) ==
    LET kept == Retain(vec, q, Len(vec))
    IN  [list |-> kept, result |-> Len(kept) # Len(vec)]

AssocList_keys(vec) == [i \in 1..Len(vec) |-> vec[i][1]]

AssocList_len(vec) == Len(vec)

AssocList_is_empty(vec) == Len(vec) = 0

\* AssocList::new(slice): the caller's slice, taken as it is
AssocList_new(slice) == SubSeq(slice, 1, Len(slice))

\* SortedAssocList::from_slice(slice): the caller's slice, taken as it is
SortedAssocList_from_slice(slice) == SubSeq(slice, 1, Len(slice))

\* AssocListMut -> AssocList: the entries of the vector, as a slice
AssocList_from(vec) == SubSeq(vec, 1, Len(vec))

\* stable insertion of e into the sorted sequence s (after its equals)
RECURSIVE InsertSorted(_, _)
InsertSorted(s, e) ==
    IF s = << >> THEN << e >>
    ELSE IF Cmp(Borrow(e[1]), Borrow(s[Len(s)][1])) = "Less"
         THEN Append(InsertSorted(SubSeq(s, 1, Len(s) - 1), e), s[Len(s)])
         ELSE Append(s, e)

\* stable sort of the first n entries, ascending by key
RECURSIVE StableSort(_, _)
StableSort(vec, n) ==
    IF n = 0 THEN << >> ELSE InsertSorted(StableSort(vec, n - 1), vec[n])

\* collapse every run of equal keys in the first n entries to its first entry
RECURSIVE Dedup(_, _)
Dedup(vec, n) ==
    IF n = 0 THEN << >>
    ELSE LET d == Dedup(vec, n - 1)
         IN  IF d # << >> /\ Cmp(Borrow(d[Len(d)][1]), Borrow(vec[n][1])) = "Equal"
             THEN d
             ELSE Append(d, vec[n])

\* AssocListMut -> SortedAssocList: stable sort, then dedup
SortedAssocList_from(vec) ==
    LET sorted == StableSort(vec, Len(vec))
    IN  Dedup(sorted, Len(sorted))

\* binary search in entries[left+1 .. right] (0-based half-open [left, right))
RECURSIVE BinarySearch(_, _, _, _)
BinarySearch(entries, q, left, right) ==
    IF left >= right THEN None
    ELSE LET mid == left + ((right - left) \div 2)
             c == Cmp(Borrow(entries[mid + 1][1]), q)
         IN  IF c = "Less" THEN BinarySearch(entries, q, mid + 1, right)
             ELSE IF c = "Greater" THEN BinarySearch(entries, q, left, mid)
             ELSE Some(entries[mid + 1][2])

SortedAssocList_get(entries, q) == BinarySearch(entries, q, 0, Len(entries))

SortedAssocList_contains_key(entries, q) == is_some(SortedAssocList_get(entries, q))

\* ---- MultiSetMut ----

MultiSetMut_new_in == AssocListMut_new_in

\* variant: looks at the most recent entry only
MultiSetMut_contains_last(list, value) ==
    Len(list) > 0 /\ Cmp(value, Borrow(list[Len(list)][1])) = "Equal"

MultiSetMut_contains(list, value) == AssocListMut_contains_key(list, value)

\* variant: skips a value that is already present
MultiSetMut_insert_dedup(list, value) ==
    IF AssocListMut_contains_key(list, Borrow(value)) THEN list
    ELSE AssocListMut_insert(list, value, Unit)

\* variant: puts the new entry in front
MultiSetMut_insert_front(list, value) == << << value, Unit >> >> \o list

MultiSetMut_insert(list, value) == AssocListMut_insert(list, value, Unit)

\* variant: removes every match
MultiSetMut_remove_every(list, value) ==
    LET r == AssocListMut_remove_all(list, value)
    IN  [list |-> r.list, result |-> r.result]

\* variant: removes the earliest match
MultiSetMut_remove_first(list, value) ==
    LET i == Position(list, value, 1)
    IN  IF i = 0 THEN [list |-> list, result |-> FALSE]
        ELSE [list |-> VecRemove(list, i), result |-> TRUE]

\* variant: is_none() in place of is_some()
MultiSetMut_remove_is_none(list, value) ==
    LET r == AssocListMut_remove(list, value)
    IN  [list |-> r.list, result |-> ~is_some(r.result)]

MultiSetMut_remove(list, value) ==
    LET r == AssocListMut_remove(list, value)
    IN  [list |-> r.list, result |-> is_some(r.result)]

\* variant: removes one match only
MultiSetMut_remove_all_once(list, value) ==
    LET r == AssocListMut_remove(list, value)
    IN  [list |-> r.list, result |-> is_some(r.result)]

MultiSetMut_remove_all(list, value) == AssocListMut_remove_all(list, value)

MultiSetMut_iter(list) == AssocList_keys(list)

MultiSetMut_len(list) == AssocList_len(list)

\* variant: the negated test
MultiSetMut_is_empty_neg(list) == ~AssocList_is_empty(list)

MultiSetMut_is_empty(list) == AssocList_is_empty(list)

\* ---- MultiSet ----

\* variant: the sorting conversion
MultiSet_from_sorted(list) == SortedAssocList_from(list)

MultiSet_from(list) == AssocList_from(list)

\* variant: looks at the first entry only
MultiSet_contains_first(list, value) ==
    Len(list) > 0 /\ Cmp(value, Borrow(list[1][1])) = "Equal"

MultiSet_contains(list, value) == AssocList_contains_key(list, value)

MultiSet_iter(list) == AssocList_keys(list)

MultiSet_len(list) == AssocList_len(list)

MultiSet_is_empty(list) == AssocList_is_empty(list)

MultiSet_from_slice(slice) == AssocList_new(slice)

\* #[derive(Copy, Clone)]: the copy is a handle on the same entries
MultiSet_clone(list) == list

\* ---- SortedSet ----

\* variant: reverses the list first, so the latest of equal elements comes first
SortedSet_from_reversed(list) ==
    SortedAssocList_from([i \in 1..Len(list) |-> list[Len(list) + 1 - i]])

\* variant: the plain conversion, no sort and no dedup
SortedSet_from_plain(list) == AssocList_from(list)

SortedSet_from(list) == SortedAssocList_from(list)

\* variant: the search stops one entry short of the end
SortedSet_contains_short(list, value) ==
    is_some(BinarySearch(list, value, 0, Len(list) - 1))

SortedSet_contains(list, value) == SortedAssocList_contains_key(list, value)

SortedSet_iter(list) == AssocList_keys(list)

SortedSet_len(list) == AssocList_len(list)

SortedSet_is_empty(list) == AssocList_is_empty(list)

\* variant: sorts and deduplicates the slice
SortedSet_from_slice_checked(slice) == SortedAssocList_from(slice)

SortedSet_from_slice(slice) == SortedAssocList_from_slice(slice)

\* variant: the copy starts out empty
SortedSet_clone_empty(list) == << >>

\* Clone for SortedSet: *self, a handle on the same entries
SortedSet_clone(list) == list

\* a handle with lifetime 'bump or 'a is usable while its arena is alive
Live(a) == a = "alive"

\* ---- state ----
VARIABLES
    phase,    \* "Building", "FrozenUnordered" (MultiSet) or "FrozenSorted" (SortedSet)
    list,     \* the builder's list (MultiSetMut.list); empty once consumed
    frozen,   \* the list of the frozen set (MultiSet.list or SortedSet.list)
    log,      \* history: every inserted element, in insertion order
    nIns,     \* history: number of insert calls
    nRem,     \* history: number of remove / remove_all calls that returned true
    nGone,    \* history: number of elements those calls took out of the list
    lastOp,   \* history: the last operation called
    lastKey,  \* history: the query of the last operation (the key of an inserted element)
    lastRet,  \* history: the boolean the last operation returned (FALSE if none)
    prev,     \* history: the builder's list before the last operation on the builder
              \*          (for a set made by from_slice: the caller's slice)
    lastLen,  \* history: the number the last operation returned (0 if none)
    lastIter, \* history: the sequence the last iter() yielded (empty if none)
    origin,   \* "new_in" (a builder) or "from_slice" (a caller's slice)
    arena,    \* the Bump the set is bound to: "alive" or "dropped"
    handles,  \* the copy of the frozen set's handle that each reader holds
    held,     \* the readers that hold a copy
    reader,   \* history: the reader that made the last read through a copy (0 if none)
    ffiArena, \* the arena of hackc_compile_hhas_create_arena: "null", "alive", "freed"
    prog,     \* the program compiled into it: "null", "live", "freed"
    ffiOp,    \* history: the last FFI function called
    ffiRet,   \* history: the pointer it returned: "none", "ptr" or "null"
    ffiUB,    \* history: the last FFI call went through a pointer already freed
    bufLen,   \* err_buf.buf_len as the caller set it for the last FFI call (a c_int)
    failed,   \* history: the last FFI call ended in an error with a message
    errMsg,   \* history: the bytes of that message (e)
    errBuf,   \* the memory at err_buf.buf after the last FFI call, byte i at position i + 1
    phase2,   \* a second builder, filled independently: "Building" or "FrozenSorted"
    list2,    \* the second builder's list (history, once converted: the list it had)
    frozen2   \* the list of the SortedSet converted from the second builder

outVars == << lastLen, lastIter >>

shareVars == << handles, held, reader >>

errVars == << bufLen, failed, errMsg, errBuf >>

ffiVars == << ffiArena, prog, ffiOp, ffiRet, ffiUB, errVars >>

\* a byte of the caller's memory that no call has written
Untouched == 0 - 1

\* the caller's memory at err_buf.buf, as far as a message can reach
FreshMem == [i \in 1..(MaxErrLen + 1) |-> Untouched]

pairVars == << phase2, list2, frozen2 >>

otherVars == << origin, arena, shareVars, ffiVars, pairVars >>

setVars == << phase, list, frozen, log, nIns, nRem, nGone, lastOp, lastKey, lastRet, prev,
              outVars, origin, arena, shareVars, pairVars >>

vars == << phase, list, frozen, log, nIns, nRem, nGone, lastOp, lastKey, lastRet, prev,
           outVars, otherVars >>

Readers == 1..MaxReaders

NoOutput == lastLen' = 0 /\ lastIter' = << >>

\* nothing has been called on the FFI, no reader holds a copy, the arena is alive
InitAlone ==
    /\ lastLen = 0
    /\ lastIter = << >>
    /\ arena = "alive"
    /\ handles = [r \in Readers |-> << >>]
    /\ held = {}
    /\ reader = 0
    /\ ffiArena = "null"
    /\ prog = "null"
    /\ ffiOp = "none"
    /\ ffiRet = "none"
    /\ ffiUB = FALSE
    /\ bufLen = 0
    /\ failed = FALSE
    /\ errMsg = << >>
    /\ errBuf = FreshMem

\* and the second builder is new and empty
InitOther ==
    /\ InitAlone
    /\ phase2 = "Building"
    /\ list2 = MultiSetMut_new_in
    /\ frozen2 = << >>

\* number of entries of vec whose element compares equal to q
Matches(vec, q) ==
    Cardinality({i \in 1..Len(vec) : Cmp(q, Borrow(vec[i][1])) = "Equal"})

Init ==
    /\ phase = "Building"
    /\ list = MultiSetMut_new_in
    /\ frozen = << >>
    /\ log = << >>
    /\ nIns = 0
    /\ nRem = 0
    /\ nGone = 0
    /\ lastOp = "new_in"
    /\ lastKey = 0
    /\ lastRet = FALSE
    /\ prev = << >>
    /\ origin = "new_in"
    /\ InitOther

Insert(value) ==
    /\ phase = "Building"
    /\ Live(arena)
    /\ nIns < MaxInserts
    /\ list' = MultiSetMut_insert(list, value)
    /\ log' = Append(log, value)
    /\ nIns' = nIns + 1
    /\ lastOp' = "insert"
    /\ lastKey' = Borrow(value)
    /\ lastRet' = FALSE
    /\ prev' = list
    /\ UNCHANGED << phase, frozen, nRem, nGone >>
    /\ NoOutput
    /\ UNCHANGED otherVars

Remove(q) ==
    /\ phase = "Building"
    /\ Live(arena)
    /\ LET r == MultiSetMut_remove(list, q)
       IN  /\ list' = r.list
           /\ lastRet' = r.result
           /\ nRem' = IF r.result THEN nRem + 1 ELSE nRem
           /\ nGone' = IF r.result THEN nGone + 1 ELSE nGone
    /\ lastOp' = "remove"
    /\ lastKey' = q
    /\ prev' = list
    /\ UNCHANGED << phase, frozen, log, nIns >>
    /\ NoOutput
    /\ UNCHANGED otherVars

RemoveAll(q) ==
    /\ phase = "Building"
    /\ Live(arena)
    /\ LET r == MultiSetMut_remove_all(list, q)
       IN  /\ list' = r.list
           /\ lastRet' = r.result
           /\ nRem' = IF r.result THEN nRem + 1 ELSE nRem
           /\ nGone' = nGone + Matches(list, q)
    /\ lastOp' = "remove_all"
    /\ lastKey' = q
    /\ prev' = list
    /\ UNCHANGED << phase, frozen, log, nIns >>
    /\ NoOutput
    /\ UNCHANGED otherVars

Contains(q) ==
    /\ phase = "Building"
    /\ Live(arena)
    /\ lastRet' = MultiSetMut_contains(list, q)
    /\ lastOp' = "contains"
    /\ lastKey' = q
    /\ prev' = list
    /\ UNCHANGED << phase, list, frozen, log, nIns, nRem, nGone >>
    /\ NoOutput
    /\ UNCHANGED otherVars

\* variant: converts from a borrow, the builder stays usable
Freeze_by_ref ==
    /\ phase = "Building"
    /\ Live(arena)
    /\ frozen' = MultiSet_from(list)
    /\ lastOp' = "into_multiset"
    /\ lastRet' = FALSE
    /\ prev' = list
    /\ UNCHANGED << phase, list, log, nIns, nRem, nGone, lastKey >>
    /\ NoOutput
    /\ UNCHANGED otherVars

\* MultiSet::from(set): consumes the builder
Freeze ==
    /\ phase = "Building"
    /\ Live(arena)
    /\ phase' = "FrozenUnordered"
    /\ frozen' = MultiSet_from(list)
    /\ list' = << >>
    /\ lastOp' = "into_multiset"
    /\ lastRet' = FALSE
    /\ prev' = list
    /\ UNCHANGED << log, nIns, nRem, nGone, lastKey >>
    /\ NoOutput
    /\ UNCHANGED otherVars

\* SortedSet::from(set): consumes the builder
Sort ==
    /\ phase = "Building"
    /\ Live(arena)
    /\ phase' = "FrozenSorted"
    /\ frozen' = SortedSet_from(list)
    /\ list' = << >>
    /\ lastOp' = "into_sortedset"
    /\ lastRet' = FALSE
    /\ prev' = list
    /\ UNCHANGED << log, nIns, nRem, nGone, lastKey >>
    /\ NoOutput
    /\ UNCHANGED otherVars

MultiSetContains(q) ==
    /\ phase = "FrozenUnordered"
    /\ Live(arena)
    /\ lastRet' = MultiSet_contains(frozen, q)
    /\ lastOp' = "multiset_contains"
    /\ lastKey' = q
    /\ UNCHANGED << phase, list, frozen, log, nIns, nRem, nGone, prev >>
    /\ NoOutput
    /\ UNCHANGED otherVars

SortedSetContains(q) ==
    /\ phase = "FrozenSorted"
    /\ Live(arena)
    /\ lastRet' = SortedSet_contains(frozen, q)
    /\ lastOp' = "sortedset_contains"
    /\ lastKey' = q
    /\ UNCHANGED << phase, list, frozen, log, nIns, nRem, nGone, prev >>
    /\ NoOutput
    /\ UNCHANGED otherVars

\* variant: an iterator that takes the entries out of the list
MultiSetMutIter_draining ==
    /\ phase = "Building"
    /\ Live(arena)
    /\ lastIter' = MultiSetMut_iter(list)
    /\ lastRet' = FALSE
    /\ lastLen' = 0
    /\ lastOp' = "iter"
    /\ prev' = list
    /\ list' = << >>
    /\ UNCHANGED << phase, frozen, log, nIns, nRem, nGone, lastKey >>
    /\ UNCHANGED otherVars

MultiSetMutIter ==
    /\ phase = "Building"
    /\ Live(arena)
    /\ lastIter' = MultiSetMut_iter(list)
    /\ lastRet' = FALSE
    /\ lastLen' = 0
    /\ lastOp' = "iter"
    /\ prev' = list
    /\ UNCHANGED << phase, list, frozen, log, nIns, nRem, nGone, lastKey >>
    /\ UNCHANGED otherVars

MultiSetMutLen ==
    /\ phase = "Building"
    /\ Live(arena)
    /\ lastLen' = MultiSetMut_len(list)
    /\ lastRet' = FALSE
    /\ lastIter' = << >>
    /\ lastOp' = "len"
    /\ prev' = list
    /\ UNCHANGED << phase, list, frozen, log, nIns, nRem, nGone, lastKey >>
    /\ UNCHANGED otherVars

MultiSetMutIsEmpty ==
    /\ phase = "Building"
    /\ Live(arena)
    /\ lastRet' = MultiSetMut_is_empty(list)
    /\ NoOutput
    /\ lastOp' = "is_empty"
    /\ prev' = list
    /\ UNCHANGED << phase, list, frozen, log, nIns, nRem, nGone, lastKey >>
    /\ UNCHANGED otherVars

MultiSetIter ==
    /\ phase = "FrozenUnordered"
    /\ Live(arena)
    /\ lastIter' = MultiSet_iter(frozen)
    /\ lastRet' = FALSE
    /\ lastLen' = 0
    /\ lastOp' = "multiset_iter"
    /\ UNCHANGED << phase, list, frozen, log, nIns, nRem, nGone, lastKey, prev >>
    /\ UNCHANGED otherVars

MultiSetLen ==
    /\ phase = "FrozenUnordered"
    /\ Live(arena)
    /\ lastLen' = MultiSet_len(frozen)
    /\ lastRet' = FALSE
    /\ lastIter' = << >>
    /\ lastOp' = "multiset_len"
    /\ UNCHANGED << phase, list, frozen, log, nIns, nRem, nGone, lastKey, prev >>
    /\ UNCHANGED otherVars

MultiSetIsEmpty ==
    /\ phase = "FrozenUnordered"
    /\ Live(arena)
    /\ lastRet' = MultiSet_is_empty(frozen)
    /\ NoOutput
    /\ lastOp' = "multiset_is_empty"
    /\ UNCHANGED << phase, list, frozen, log, nIns, nRem, nGone, lastKey, prev >>
    /\ UNCHANGED otherVars

SortedSetIter ==
    /\ phase = "FrozenSorted"
    /\ Live(arena)
    /\ lastIter' = SortedSet_iter(frozen)
    /\ lastRet' = FALSE
    /\ lastLen' = 0
    /\ lastOp' = "sortedset_iter"
    /\ UNCHANGED << phase, list, frozen, log, nIns, nRem, nGone, lastKey, prev >>
    /\ UNCHANGED otherVars

SortedSetLen ==
    /\ phase = "FrozenSorted"
    /\ Live(arena)
    /\ lastLen' = SortedSet_len(frozen)
    /\ lastRet' = FALSE
    /\ lastIter' = << >>
    /\ lastOp' = "sortedset_len"
    /\ UNCHANGED << phase, list, frozen, log, nIns, nRem, nGone, lastKey, prev >>
    /\ UNCHANGED otherVars

SortedSetIsEmpty ==
    /\ phase = "FrozenSorted"
    /\ Live(arena)
    /\ lastRet' = SortedSet_is_empty(frozen)
    /\ NoOutput
    /\ lastOp' = "sortedset_is_empty"
    /\ UNCHANGED << phase, list, frozen, log, nIns, nRem, nGone, lastKey, prev >>
    /\ UNCHANGED otherVars

Next ==
    \/ \E value \in Elems : Insert(value)
    \/ \E q \in Keys : Remove(q)
    \/ \E q \in Keys : RemoveAll(q)
    \/ \E q \in Keys : Contains(q)
    \/ Freeze
    \/ Sort
    \/ \E q \in Keys : MultiSetContains(q)
    \/ \E q \in Keys : SortedSetContains(q)

Spec == Init /\ [][Next]_vars

\* ---- the conversion to SortedSet and its lookup, over every builder content ----

\* every list of at most PureMaxLen entries: the builder after that many inserts
BuiltLists ==
    UNION { [1..n -> { << e, Unit >> : e \in PureElems }] : n \in 0..PureMaxLen }

InitSorted ==
    /\ phase = "Building"
    /\ list \in BuiltLists
    /\ frozen = << >>
    /\ log = MultiSetMut_iter(list)
    /\ nIns = Len(list)
    /\ nRem = 0
    /\ nGone = 0
    /\ lastOp = IF Len(list) = 0 THEN "new_in" ELSE "insert"
    /\ lastKey = IF Len(list) = 0 THEN 0 ELSE Borrow(list[Len(list)][1])
    /\ lastRet = FALSE
    /\ prev = IF Len(list) = 0 THEN << >> ELSE SubSeq(list, 1, Len(list) - 1)
    /\ origin = "new_in"
    /\ InitOther

NextSorted ==
    \/ Sort
    \/ \E q \in PureKeys : SortedSetContains(q)

SpecSorted == InitSorted /\ [][NextSorted]_vars

\* ---- reads, unchecked construction and shared handles ----

Frozen == phase \in {"FrozenUnordered", "FrozenSorted"}

\* MultiSet::from_slice(slice): a MultiSet over the caller's slice
MultiSetFromSlice ==
    /\ phase = "Slice"
    /\ phase' = "FrozenUnordered"
    /\ frozen' = MultiSet_from_slice(prev)
    /\ lastOp' = "multiset_from_slice"
    /\ lastRet' = FALSE
    /\ NoOutput
    /\ UNCHANGED << list, log, nIns, nRem, nGone, lastKey, prev >>
    /\ UNCHANGED otherVars

\* SortedSet::from_slice(list): a SortedSet over the caller's slice
SortedSetFromSlice ==
    /\ phase = "Slice"
    /\ phase' = "FrozenSorted"
    /\ frozen' = SortedSet_from_slice(prev)
    /\ lastOp' = "sortedset_from_slice"
    /\ lastRet' = FALSE
    /\ NoOutput
    /\ UNCHANGED << list, log, nIns, nRem, nGone, lastKey, prev >>
    /\ UNCHANGED otherVars

\* reader r copies the handle: from the set itself (src = 0) or from the copy
\* that reader src holds; readers are numbered in the order they take a copy
CopyHandle(r, src) ==
    /\ Frozen
    /\ Live(arena)
    /\ r \notin held
    /\ r = Cardinality(held) + 1
    /\ src = 0 \/ src \in held
    /\ LET from == IF src = 0 THEN frozen ELSE handles[src]
       IN  handles' = [handles EXCEPT ![r] =
                          IF phase = "FrozenUnordered" THEN MultiSet_clone(from)
                          ELSE SortedSet_clone(from)]
    /\ held' = held \cup {r}
    /\ lastOp' = "copy"
    /\ lastRet' = FALSE
    /\ NoOutput
    /\ UNCHANGED << phase, list, frozen, log, nIns, nRem, nGone, lastKey, prev >>
    /\ UNCHANGED << origin, arena, reader, ffiVars, pairVars >>

\* reader r calls contains(q) through its copy
ReaderContains(r, q) ==
    /\ Frozen
    /\ Live(arena)
    /\ r \in held
    /\ lastRet' = IF phase = "FrozenUnordered" THEN MultiSet_contains(handles[r], q)
                  ELSE SortedSet_contains(handles[r], q)
    /\ NoOutput
    /\ lastOp' = "reader_contains"
    /\ lastKey' = q
    /\ reader' = r
    /\ UNCHANGED << phase, list, frozen, log, nIns, nRem, nGone, prev >>
    /\ UNCHANGED << origin, arena, handles, held, ffiVars, pairVars >>

\* reader r calls iter() through its copy
ReaderIter(r) ==
    /\ Frozen
    /\ Live(arena)
    /\ r \in held
    /\ lastIter' = IF phase = "FrozenUnordered" THEN MultiSet_iter(handles[r])
                   ELSE SortedSet_iter(handles[r])
    /\ lastRet' = FALSE
    /\ lastLen' = 0
    /\ lastOp' = "reader_iter"
    /\ reader' = r
    /\ UNCHANGED << phase, list, frozen, log, nIns, nRem, nGone, lastKey, prev >>
    /\ UNCHANGED << origin, arena, handles, held, ffiVars, pairVars >>

\* reader r calls len() through its copy
ReaderLen(r) ==
    /\ Frozen
    /\ Live(arena)
    /\ r \in held
    /\ lastLen' = IF phase = "FrozenUnordered" THEN MultiSet_len(handles[r])
                  ELSE SortedSet_len(handles[r])
    /\ lastRet' = FALSE
    /\ lastIter' = << >>
    /\ lastOp' = "reader_len"
    /\ reader' = r
    /\ UNCHANGED << phase, list, frozen, log, nIns, nRem, nGone, lastKey, prev >>
    /\ UNCHANGED << origin, arena, handles, held, ffiVars, pairVars >>

\* reader r calls is_empty() through its copy
ReaderIsEmpty(r) ==
    /\ Frozen
    /\ Live(arena)
    /\ r \in held
    /\ lastRet' = IF phase = "FrozenUnordered" THEN MultiSet_is_empty(handles[r])
                  ELSE SortedSet_is_empty(handles[r])
    /\ NoOutput
    /\ lastOp' = "reader_is_empty"
    /\ reader' = r
    /\ UNCHANGED << phase, list, frozen, log, nIns, nRem, nGone, lastKey, prev >>
    /\ UNCHANGED << origin, arena, handles, held, ffiVars, pairVars >>

\* every list of at most MaxInserts entries over the keys: a builder's content
\* after inserts and removals, or a caller's slice
SmallLists ==
    UNION { [1..n -> { << e, Unit >> : e \in [key : Keys, tag : {0}] }] : n \in 0..MaxInserts }

\* a builder holding one of the lists
InitBuilt ==
    /\ phase = "Building"
    /\ list \in SmallLists
    /\ frozen = << >>
    /\ log = MultiSetMut_iter(list)
    /\ nIns = Len(list)
    /\ nRem = 0
    /\ nGone = 0
    /\ lastOp = IF Len(list) = 0 THEN "new_in" ELSE "insert"
    /\ lastKey = IF Len(list) = 0 THEN 0 ELSE Borrow(list[Len(list)][1])
    /\ lastRet = FALSE
    /\ prev = IF Len(list) = 0 THEN << >> ELSE SubSeq(list, 1, Len(list) - 1)
    /\ origin = "new_in"
    /\ InitOther

\* a caller holding a slice, no set made of it yet
InitSlice ==
    /\ phase = "Slice"
    /\ list = << >>
    /\ frozen = << >>
    /\ log = << >>
    /\ nIns = 0
    /\ nRem = 0
    /\ nGone = 0
    /\ lastOp = "slice"
    /\ lastKey = 0
    /\ lastRet = FALSE
    /\ prev \in SmallLists
    /\ origin = "from_slice"
    /\ InitOther

InitReads == InitBuilt \/ InitSlice

NextReads ==
    \/ \E q \in Keys : Contains(q)
    \/ MultiSetMutIter
    \/ MultiSetMutLen
    \/ MultiSetMutIsEmpty
    \/ Freeze
    \/ Sort
    \/ MultiSetFromSlice
    \/ SortedSetFromSlice
    \/ \E q \in Keys : MultiSetContains(q)
    \/ MultiSetIter
    \/ MultiSetLen
    \/ MultiSetIsEmpty
    \/ \E q \in Keys : SortedSetContains(q)
    \/ SortedSetIter
    \/ SortedSetLen
    \/ SortedSetIsEmpty
    \/ \E r \in Readers : \E src \in {0} \cup Readers : CopyHandle(r, src)
    \/ \E r \in Readers : \E q \in Keys : ReaderContains(r, q)
    \/ \E r \in Readers : ReaderIter(r)
    \/ \E r \in Readers : ReaderLen(r)
    \/ \E r \in Readers : ReaderIsEmpty(r)

SpecReads == InitReads /\ [][NextReads]_vars

\* ---- two builders with the same distinct values ----

\* the keys of the entries of vec
KeySet(vec) == {Borrow(vec[i][1]) : i \in 1..Len(vec)}

\* insert(value) on the second builder, of a value it already holds
InsertPresent2(value) ==
    /\ phase2 = "Building"
    /\ Live(arena)
    /\ Len(list2) <= MaxInserts
    /\ MultiSetMut_contains(list2, Borrow(value))
    /\ list2' = MultiSetMut_insert(list2, value)
    /\ lastOp' = "insert_second"
    /\ lastKey' = Borrow(value)
    /\ lastRet' = FALSE
    /\ NoOutput
    /\ UNCHANGED << phase, list, frozen, log, nIns, nRem, nGone, prev >>
    /\ UNCHANGED << origin, arena, shareVars, ffiVars, phase2, frozen2 >>

\* SortedSet::from(second builder)
Sort2 ==
    /\ phase2 = "Building"
    /\ Live(arena)
    /\ phase2' = "FrozenSorted"
    /\ frozen2' = SortedSet_from(list2)
    /\ lastOp' = "into_sortedset_second"
    /\ lastRet' = FALSE
    /\ NoOutput
    /\ UNCHANGED << phase, list, frozen, log, nIns, nRem, nGone, lastKey, prev >>
    /\ UNCHANGED << origin, arena, shareVars, ffiVars, list2 >>

\* two builders filled by inserts, in any order and any multiplicity, with the
\* same distinct values
InitPair ==
    /\ phase = "Building"
    /\ list \in SmallLists
    /\ frozen = << >>
    /\ log = MultiSetMut_iter(list)
    /\ nIns = Len(list)
    /\ nRem = 0
    /\ nGone = 0
    /\ lastOp = IF Len(list) = 0 THEN "new_in" ELSE "insert"
    /\ lastKey = IF Len(list) = 0 THEN 0 ELSE Borrow(list[Len(list)][1])
    /\ lastRet = FALSE
    /\ prev = IF Len(list) = 0 THEN << >> ELSE SubSeq(list, 1, Len(list) - 1)
    /\ origin = "new_in"
    /\ InitAlone
    /\ phase2 = "Building"
    /\ list2 \in {l \in SmallLists : KeySet(l) = KeySet(list)}
    /\ frozen2 = << >>

NextPair ==
    \/ Sort
    \/ SortedSetIter
    \/ SortedSetLen
    \/ \E value \in Elems : InsertPresent2(value)
    \/ Sort2

SpecPair == InitPair /\ [][NextPair]_vars

\* ---- arenas: the end of 'bump, and the arena and program pointers of the FFI ----

\* the Bump that the builder and its sets borrow is dropped or reset
DropArena ==
    /\ Live(arena)
    /\ arena' = "dropped"
    /\ lastOp' = "drop_arena"
    /\ lastRet' = FALSE
    /\ NoOutput
    /\ UNCHANGED << phase, list, frozen, log, nIns, nRem, nGone, lastKey, prev,
                    origin, shareVars, ffiVars, pairVars >>

\* a usize as four 16-bit limbs, the most significant first
Limb == 65536

\* n as usize, n a c_int: a negative n is sign-extended to 64 bits
AsUsize(n) ==
    IF n >= 0 THEN << 0, 0, n \div Limb, n % Limb >>
    ELSE << Limb - 1, Limb - 1, Limb + (n \div Limb), n % Limb >>

\* a >= b on usize values
UsizeGe(a, b) ==
    LET diff == {i \in 1..4 : a[i] # b[i]}
    IN  IF diff = {} THEN TRUE
        ELSE LET i == CHOOSE j \in diff : \A k \in diff : j <= k
             IN  a[i] > b[i]

\* buf.len() of slice::from_raw_parts_mut(err_buf.buf, buf_len as usize)
BufSliceLen(n) == AsUsize(n)

\* the bytes of an error message of n bytes
Message(n) == [i \in 1..n |-> 64 + i]

\* the Err arm: a message that does not fit (e.len() >= buf.len()) is only
\* reported by warn!; otherwise copy_nonoverlapping(e, buf, e.len()) and
\* buf[e.len()] = 0
WriteError(mem, n, e) ==
    IF UsizeGe(AsUsize(Len(e)), BufSliceLen(n)) THEN mem
    ELSE [i \in 1..Len(mem) |->
            IF i <= Len(e) THEN e[i]
            ELSE IF i = Len(e) + 1 THEN 0
            ELSE mem[i]]

\* a call that takes no error buffer
NoErrBuf ==
    /\ bufLen' = 0
    /\ failed' = FALSE
    /\ errMsg' = << >>
    /\ errBuf' = FreshMem

\* the buf_len values a caller may pass
BufLens == (0 - 2)..MaxBufLen

\* the process is still running
Running == ffiRet # "abort"

\* Box::into_raw(Box::new(Bump::new()))
hackc_compile_hhas_create_arena ==
    /\ Running
    /\ ffiArena = "null"
    /\ ffiArena' = "alive"
    /\ ffiOp' = "create_arena"
    /\ ffiRet' = "ptr"
    /\ ffiUB' = FALSE
    /\ NoErrBuf
    /\ UNCHANGED prog
    /\ UNCHANGED setVars

\* Box::from_raw(arena): frees the arena whatever was compiled into it; a
\* second call on the same pointer frees freed memory
hackc_compile_hhas_free_arena ==
    /\ Running
    /\ ffiArena \in {"alive", "freed"}
    /\ ffiArena' = "freed"
    /\ ffiOp' = "free_arena"
    /\ ffiRet' = "none"
    /\ ffiUB' = (ffiArena = "freed")
    /\ NoErrBuf
    /\ UNCHANGED prog
    /\ UNCHANGED setVars

\* alloc.as_ref().unwrap() panics on a null pointer and the panic is caught: null;
\* then the slice over the error buffer is made, of buf_len as usize bytes: for
\* a negative buf_len that is undefined, and the call goes on with the
\* sign-extended length or the process stops (trap);
\* on a live arena the compilation gives a program (ok) or an error of elen
\* bytes, which is written to the buffer if it fits: null;
\* a freed arena is dereferenced all the same, with whatever comes of it
hackc_compile_hhas_from_text_cpp_ffi(ok, n, elen, trap) ==
    /\ Running
    /\ prog = "null"
    /\ ok => elen = 0
    /\ trap => n < 0
    /\ ffiOp' = "from_text"
    /\ ffiUB' = (ffiArena = "freed")
    /\ bufLen' = n
    /\ IF ffiArena = "null"
       THEN /\ ffiRet' = "null"
            /\ failed' = FALSE /\ errMsg' = << >> /\ errBuf' = FreshMem
            /\ UNCHANGED prog
       ELSE IF trap
       THEN /\ ffiRet' = "abort"
            /\ failed' = FALSE /\ errMsg' = << >> /\ errBuf' = FreshMem
            /\ UNCHANGED prog
       ELSE IF ok
       THEN /\ ffiRet' = "ptr"
            /\ prog' = "live"
            /\ failed' = FALSE /\ errMsg' = << >> /\ errBuf' = FreshMem
       ELSE /\ ffiRet' = "null"
            /\ failed' = TRUE
            /\ errMsg' = Message(elen)
            /\ errBuf' = WriteError(FreshMem, n, Message(elen))
            /\ UNCHANGED prog
    /\ UNCHANGED ffiArena
    /\ UNCHANGED setVars

\* Box::from_raw(prog)
hackc_compile_hhas_free_prog_cpp_ffi ==
    /\ Running
    /\ prog = "live"
    /\ prog' = "freed"
    /\ ffiOp' = "free_prog"
    /\ ffiRet' = "none"
    /\ ffiUB' = FALSE
    /\ NoErrBuf
    /\ UNCHANGED ffiArena
    /\ UNCHANGED setVars

\* prog.as_ref().unwrap() panics on a null pointer and the panic is caught: null;
\* then the slice over the error buffer, as above; then the program is printed
\* from the memory of its arena, which is read whether or not the arena is
\* still alive: a string (ok) or an error of elen bytes, written to the buffer
\* if it fits: null
hackc_hhas_to_string_cpp_ffi(ok, n, elen, trap) ==
    /\ Running
    /\ prog \in {"null", "live"}
    /\ ok => elen = 0
    /\ trap => n < 0
    /\ ffiOp' = "to_string"
    /\ ffiUB' = (prog = "live" /\ ffiArena = "freed")
    /\ bufLen' = n
    /\ IF prog = "null"
       THEN /\ ffiRet' = "null"
            /\ failed' = FALSE /\ errMsg' = << >> /\ errBuf' = FreshMem
       ELSE IF trap
       THEN /\ ffiRet' = "abort"
            /\ failed' = FALSE /\ errMsg' = << >> /\ errBuf' = FreshMem
       ELSE IF ok
       THEN /\ ffiRet' = "ptr"
            /\ failed' = FALSE /\ errMsg' = << >> /\ errBuf' = FreshMem
       ELSE /\ ffiRet' = "null"
            /\ failed' = TRUE
            /\ errMsg' = Message(elen)
            /\ errBuf' = WriteError(FreshMem, n, Message(elen))
    /\ UNCHANGED << ffiArena, prog >>
    /\ UNCHANGED setVars

\* elements of a single tag: the arena's state does not depend on the tag
PlainElems == [key : Keys, tag : {0}]

NextArena ==
    \/ \E value \in PlainElems : Insert(value)
    \/ \E q \in Keys : Contains(q)
    \/ Freeze
    \/ Sort
    \/ \E q \in Keys : MultiSetContains(q)
    \/ \E q \in Keys : SortedSetContains(q)
    \/ DropArena
    \/ hackc_compile_hhas_create_arena
    \/ hackc_compile_hhas_free_arena
    \/ \E ok, trap \in BOOLEAN : \E n \in BufLens : \E elen \in 0..MaxErrLen :
          hackc_compile_hhas_from_text_cpp_ffi(ok, n, elen, trap)
    \/ hackc_compile_hhas_free_prog_cpp_ffi
    \/ \E ok, trap \in BOOLEAN : \E n \in BufLens : \E elen \in 0..MaxErrLen :
          hackc_hhas_to_string_cpp_ffi(ok, n, elen, trap)

SpecArena == Init /\ [][NextArena]_vars

\* the FFI alone
NextFfi ==
    \/ hackc_compile_hhas_create_arena
    \/ hackc_compile_hhas_free_arena
    \/ \E ok, trap \in BOOLEAN : \E n \in BufLens : \E elen \in 0..MaxErrLen :
          hackc_compile_hhas_from_text_cpp_ffi(ok, n, elen, trap)
    \/ hackc_compile_hhas_free_prog_cpp_ffi
    \/ \E ok, trap \in BOOLEAN : \E n \in BufLens : \E elen \in 0..MaxErrLen :
          hackc_hhas_to_string_cpp_ffi(ok, n, elen, trap)

SpecFfi == Init /\ [][NextFfi]_vars


\* ---- properties ----

\* s with the entry at position i taken out
Without(s, i) == [j \in 1..(Len(s) - 1) |-> IF j < i THEN s[j] ELSE s[j + 1]]

\* s is t with some positions taken out
RECURSIVE IsSubseq(_, _)
IsSubseq(s, t) ==
    IF s = << >> THEN TRUE
    ELSE IF t = << >> THEN FALSE
    ELSE IF s[1] = t[1] THEN IsSubseq(Tail(s), Tail(t))
    ELSE IsSubseq(s, Tail(t))

\* some element of the sequence of elements s compares equal to q
Holds(s, q) == \E i \in 1..Len(s) : ~(Borrow(s[i]) < q) /\ ~(q < Borrow(s[i]))

\* positions of the sequence of elements s that compare equal to q
MatchAt(s, q) == {i \in 1..Len(s) : ~(Borrow(s[i]) < q) /\ ~(q < Borrow(s[i]))}

Building == phase = "Building"

\* C1: while no remove or remove_all has succeeded, len() is the number of
\* insert calls and iter() yields the inserted values in insertion order;
\* every insert, of a present value too, appends and makes len() one larger.
C1_InsertAppends ==
    /\ (Building /\ nRem = 0) =>
          /\ MultiSetMut_len(list) = nIns
          /\ MultiSetMut_iter(list) = log
    /\ (Building /\ lastOp = "insert") =>
          /\ MultiSetMut_len(list) = MultiSetMut_len(prev) + 1
          /\ MultiSetMut_iter(list) = Append(MultiSetMut_iter(prev), log[Len(log)])

\* three inserts and no removal, the last one of a value already present
C1_Witness ==
    /\ Building /\ lastOp = "insert" /\ nRem = 0 /\ nIns >= 3
    /\ \E i \in 1..(Len(log) - 1) : log[i] = log[Len(log)]

\* C2: iter() yields the present elements in insertion order: it is the
\* insertion history with positions taken out, a remove or remove_all only
\* takes positions out of the sequence, an insert puts its value at the end.
C2_InsertionOrder ==
    Building =>
        /\ IsSubseq(MultiSetMut_iter(list), log)
        /\ lastOp \in {"remove", "remove_all"} =>
              IsSubseq(MultiSetMut_iter(list), MultiSetMut_iter(prev))
        /\ lastOp = "insert" =>
              MultiSetMut_iter(list) = MultiSetMut_iter(prev) \o << log[Len(log)] >>

\* an insert after a successful removal, into a set that still holds elements
C2_Witness ==
    /\ Building /\ lastOp = "insert" /\ nRem >= 1
    /\ Len(list) >= 2
    /\ MultiSetMut_iter(list) # log

\* C3 as stated: len() is the number of inserts minus the number of remove and
\* remove_all calls that returned true.
C3_Original == Building => MultiSetMut_len(list) = nIns - nRem

\* C3 amended: len() is the number of inserts minus the number of elements
\* taken out, one per remove that returned true and one per match of each
\* remove_all.
C3_LenCounts == Building => MultiSetMut_len(list) = nIns - nGone

\* a remove_all that took out two elements at once, with one left
C3_Witness ==
    /\ Building /\ lastOp = "remove_all" /\ lastRet
    /\ Len(prev) - Len(list) >= 2
    /\ Len(list) >= 1

\* C4: remove(query) on a set holding a match takes out exactly the last
\* inserted match and returns true; every other element stays in place and
\* len() drops by one.
C4_RemoveLast ==
    (Building /\ lastOp = "remove" /\ Holds(MultiSetMut_iter(prev), lastKey)) =>
        /\ lastRet = TRUE
        /\ MultiSetMut_len(list) = MultiSetMut_len(prev) - 1
        /\ \E i \in MatchAt(MultiSetMut_iter(prev), lastKey) :
              /\ \A j \in MatchAt(MultiSetMut_iter(prev), lastKey) : j <= i
              /\ MultiSetMut_iter(list) = Without(MultiSetMut_iter(prev), i)
        /\ Cardinality(MatchAt(MultiSetMut_iter(prev), lastKey)) >= 2 =>
              MultiSetMut_contains(list, lastKey)
        /\ Cardinality(MatchAt(MultiSetMut_iter(prev), lastKey)) = 1 =>
              ~MultiSetMut_contains(list, lastKey)

\* a remove among two distinguishable duplicates, followed by another element
C4_Witness ==
    /\ Building /\ lastOp = "remove" /\ lastRet
    /\ \E i, j \in MatchAt(MultiSetMut_iter(prev), lastKey) :
          i < j /\ prev[i] # prev[j] /\ j < Len(prev)

\* C5: remove_all(query) takes out every match and nothing else, returns true
\* iff there was a match, leaves contains(query) false, and a remove_all(query)
\* right after it returns false.
C5_RemoveAll ==
    (Building /\ lastOp = "remove_all") =>
        /\ MultiSetMut_iter(list) =
              SelectSeq(MultiSetMut_iter(prev),
                        LAMBDA e : Borrow(e) < lastKey \/ lastKey < Borrow(e))
        /\ lastRet = Holds(MultiSetMut_iter(prev), lastKey)
        /\ ~MultiSetMut_contains(list, lastKey)
        /\ MultiSetMut_remove_all(list, lastKey).result = FALSE
        /\ MultiSetMut_remove_all(list, lastKey).list = list

\* the set {a, a, b}: remove_all(a) leaves [b]
C5_Witness ==
    /\ Building /\ lastOp = "remove_all" /\ lastRet
    /\ Len(prev) = 3 /\ Len(list) = 1
    /\ Borrow(prev[1][1]) = lastKey /\ Borrow(prev[2][1]) = lastKey

\* C6: remove and remove_all with a query that matches nothing return false
\* and leave the set as it was.
C6_AbsentNoOp ==
    (Building /\ lastOp \in {"remove", "remove_all"}
              /\ ~Holds(MultiSetMut_iter(prev), lastKey)) =>
        /\ lastRet = FALSE
        /\ list = prev
        /\ MultiSetMut_len(list) = MultiSetMut_len(prev)
        /\ MultiSetMut_iter(list) = MultiSetMut_iter(prev)

\* a remove of an absent value from a set that holds something
C6_WitnessRemove ==
    /\ Building /\ lastOp = "remove" /\ ~lastRet
    /\ Len(prev) >= 2 /\ ~Holds(MultiSetMut_iter(prev), lastKey)

C6_WitnessRemoveAll ==
    /\ Building /\ lastOp = "remove_all" /\ ~lastRet
    /\ Len(prev) >= 2 /\ ~Holds(MultiSetMut_iter(prev), lastKey)

C6_Witness == C6_WitnessRemove \/ C6_WitnessRemoveAll

\* C7: contains(query) on the builder and on a MultiSet is true iff a stored
\* element compares equal to query: false on the empty set, true right after
\* insert(query), false once every match is removed.
C7_Contains ==
    /\ Building =>
          /\ \A q \in Keys :
                MultiSetMut_contains(list, q) = Holds(MultiSetMut_iter(list), q)
          /\ lastOp = "contains" => lastRet = Holds(MultiSetMut_iter(list), lastKey)
          /\ lastOp = "new_in" => \A q \in Keys : ~MultiSetMut_contains(list, q)
          /\ lastOp = "insert" => MultiSetMut_contains(list, lastKey)
          /\ lastOp = "remove_all" => ~MultiSetMut_contains(list, lastKey)
          /\ (lastOp = "remove" /\ Cardinality(MatchAt(MultiSetMut_iter(prev), lastKey)) <= 1)
                => ~MultiSetMut_contains(list, lastKey)
    /\ phase = "FrozenUnordered" =>
          /\ \A q \in Keys :
                MultiSet_contains(frozen, q) = Holds(MultiSet_iter(frozen), q)
          /\ lastOp = "multiset_contains" =>
                lastRet = Holds(MultiSet_iter(frozen), lastKey)

\* contains finds a value that is stored, but not as the most recent element
C7_Witness ==
    /\ Building /\ lastOp = "contains" /\ lastRet
    /\ Len(list) >= 2
    /\ Borrow(list[Len(list)][1]) # lastKey

\* C8: freezing keeps the sequence: the MultiSet's iter() and len() are the
\* builder's at the moment of freezing, duplicates included.
C8_FreezeKeeps ==
    phase = "FrozenUnordered" =>
        /\ MultiSet_iter(frozen) = MultiSetMut_iter(prev)
        /\ MultiSet_len(frozen) = MultiSetMut_len(prev)

\* a frozen set that is out of order and holds a duplicate (as [3,1,2] is)
C8_Witness ==
    /\ phase = "FrozenUnordered"
    /\ \E i \in 1..(Len(frozen) - 1) : Borrow(frozen[i][1]) > Borrow(frozen[i + 1][1])
    /\ \E i, j \in 1..Len(frozen) : i < j /\ Borrow(frozen[i][1]) = Borrow(frozen[j][1])

\* C9: a SortedSet converted from a builder iterates in strictly ascending
\* order, holds exactly the distinct values of the builder, and its len() is
\* their number.
C9_SortedDistinct ==
    phase = "FrozenSorted" =>
        /\ \A i \in 1..(Len(frozen) - 1) :
              Borrow(SortedSet_iter(frozen)[i]) < Borrow(SortedSet_iter(frozen)[i + 1])
        /\ {Borrow(SortedSet_iter(frozen)[i]) : i \in 1..Len(frozen)} =
              {Borrow(MultiSetMut_iter(prev)[i]) : i \in 1..Len(prev)}
        /\ SortedSet_len(frozen) =
              Cardinality({Borrow(MultiSetMut_iter(prev)[i]) : i \in 1..Len(prev)})

\* a builder that is out of order and holds a duplicate (as [3,1,1,2] is)
C9_Witness ==
    /\ phase = "FrozenSorted"
    /\ Len(frozen) >= 3
    /\ Len(prev) > Len(frozen)
    /\ \E i \in 1..(Len(prev) - 1) : Borrow(prev[i][1]) > Borrow(prev[i + 1][1])

\* C10: contains(query) on a converted SortedSet is true iff an element of the
\* set compares equal to query, also below the minimum, above the maximum and
\* between two stored elements.
C10_SortedContains ==
    phase = "FrozenSorted" =>
        /\ \A q \in PureKeys :
              SortedSet_contains(frozen, q) = Holds(SortedSet_iter(frozen), q)
        /\ lastOp = "sortedset_contains" =>
              lastRet = Holds(SortedSet_iter(frozen), lastKey)

\* four elements and a query that falls between the third and the fourth
\* (as 4 in [1,2,3,5])
C10_Witness ==
    /\ phase = "FrozenSorted" /\ lastOp = "sortedset_contains" /\ ~lastRet
    /\ Len(frozen) = 4
    /\ Borrow(frozen[3][1]) < lastKey /\ lastKey < Borrow(frozen[4][1])

\* position of the earliest element of the sequence of elements s equal to q
FirstAt(s, q) == CHOOSE i \in MatchAt(s, q) : \A j \in MatchAt(s, q) : i <= j

\* position of the latest element of the sequence of elements s equal to q
LastAt(s, q) == CHOOSE i \in MatchAt(s, q) : \A j \in MatchAt(s, q) : j <= i

\* C11: the conversion to SortedSet keeps, of the builder's elements that
\* compare equal, the one inserted earliest.
C11_KeepsEarliest ==
    phase = "FrozenSorted" =>
        \A i \in 1..Len(frozen) :
            LET e == SortedSet_iter(frozen)[i]
            IN  /\ MatchAt(MultiSetMut_iter(prev), Borrow(e)) # {}
                /\ e = MultiSetMut_iter(prev)[FirstAt(MultiSetMut_iter(prev), Borrow(e))]

\* a converted builder that held two distinguishable equal elements
C11_Witness ==
    /\ phase = "FrozenSorted"
    /\ \E i, j \in 1..Len(prev) :
          i < j /\ Borrow(prev[i][1]) = Borrow(prev[j][1]) /\ prev[i] # prev[j]

\* C12: the lifecycle is one-way: only a builder converts, a conversion ends
\* the Building state, a frozen set keeps its kind, and no insert, remove or
\* remove_all acts on a consumed builder.
C12_OneWay ==
    [][ /\ phase # "Building" => phase' = phase
        /\ phase' = "Building" => phase = "Building"
        /\ phase' # phase =>
              /\ phase = "Building"
              /\ \/ phase' = "FrozenUnordered" /\ lastOp' = "into_multiset"
                 \/ phase' = "FrozenSorted" /\ lastOp' = "into_sortedset"
        /\ lastOp' = "into_multiset" => phase' = "FrozenUnordered"
        /\ lastOp' = "into_sortedset" => phase' = "FrozenSorted"
        /\ phase # "Building" =>
              /\ lastOp' \notin {"insert", "remove", "remove_all"}
              /\ UNCHANGED << list, log, nIns, nRem, nGone >>
      ]_vars

\* a set built by inserts and a removal, converted, then queried
C12_Witness ==
    /\ phase = "FrozenSorted" /\ lastOp = "sortedset_contains"
    /\ nIns >= 2 /\ nRem >= 1 /\ list = << >>

\* C17 as stated: when remove(query) takes one of several equal elements, the
\* last inserted of them is not the one taken (it survives longest).
C17_Original ==
    (Building /\ lastOp = "remove" /\ lastRet
              /\ Cardinality(MatchAt(MultiSetMut_iter(prev), lastKey)) >= 2) =>
        \E i \in MatchAt(MultiSetMut_iter(prev), lastKey) :
            /\ i # LastAt(MultiSetMut_iter(prev), lastKey)
            /\ MultiSetMut_iter(list) = Without(MultiSetMut_iter(prev), i)

\* C17 amended: when remove(query) takes one of several equal elements, the
\* first inserted of them stays where it is (it survives longest); it is taken
\* only by a remove that finds it as the single match.
C17_FirstSurvives ==
    (Building /\ lastOp = "remove" /\ lastRet) =>
        LET old == MultiSetMut_iter(prev)
            new == MultiSetMut_iter(list)
            m == FirstAt(old, lastKey)
        IN  /\ MatchAt(old, lastKey) # {}
            /\ Cardinality(MatchAt(old, lastKey)) >= 2 =>
                  /\ m \in MatchAt(new, lastKey)
                  /\ \A j \in 1..m : new[j] = old[j]
            /\ (m > Len(new) \/ new[m] # old[m]) =>
                  Cardinality(MatchAt(old, lastKey)) = 1

\* a remove among two distinguishable equal elements
C17_Witness ==
    /\ Building /\ lastOp = "remove" /\ lastRet
    /\ \E i, j \in MatchAt(MultiSetMut_iter(prev), lastKey) : i < j /\ prev[i] # prev[j]
    /\ MultiSetMut_contains(list, lastKey)

\* C20: both conversions keep membership: for every query, contains on the
\* builder, on the MultiSet frozen from it and on the SortedSet converted from
\* it agree, and so does the lookup made on the converted SortedSet.
C20_SameMembership ==
    /\ Building =>
          \A q \in Keys :
              /\ MultiSet_contains(MultiSet_from(list), q) = MultiSetMut_contains(list, q)
              /\ SortedSet_contains(SortedSet_from(list), q) = MultiSetMut_contains(list, q)
    /\ (phase = "FrozenSorted" /\ lastOp = "sortedset_contains") =>
          /\ lastRet = MultiSetMut_contains(prev, lastKey)
          /\ lastRet = MultiSet_contains(MultiSet_from(prev), lastKey)
    /\ (phase = "FrozenUnordered" /\ lastOp = "multiset_contains") =>
          /\ lastRet = MultiSetMut_contains(prev, lastKey)
          /\ lastRet = SortedSet_contains(SortedSet_from(prev), lastKey)

\* a lookup that finds a value in a set converted from an unsorted builder
\* with a duplicate, where the value is not the builder's first element
C20_Witness ==
    /\ phase = "FrozenSorted" /\ lastOp = "sortedset_contains" /\ lastRet
    /\ Len(prev) > Len(frozen)
    /\ Borrow(prev[1][1]) # lastKey
    /\ \E i \in 1..(Len(prev) - 1) : Borrow(prev[i][1]) > Borrow(prev[i + 1][1])

\* what the frozen set itself answers, by its kind
FrozenContains(q) ==
    IF phase = "FrozenUnordered" THEN MultiSet_contains(frozen, q)
    ELSE SortedSet_contains(frozen, q)

FrozenIter ==
    IF phase = "FrozenUnordered" THEN MultiSet_iter(frozen) ELSE SortedSet_iter(frozen)

FrozenLen ==
    IF phase = "FrozenUnordered" THEN MultiSet_len(frozen) ELSE SortedSet_len(frozen)

FrozenIsEmpty ==
    IF phase = "FrozenUnordered" THEN MultiSet_is_empty(frozen)
    ELSE SortedSet_is_empty(frozen)

\* C13: a frozen MultiSet or SortedSet never changes: no step changes its
\* entries or its kind, every copy of the handle shows the same entries, and
\* every reader, through its copy, gets the answers of the set itself.
C13_FrozenImmutable ==
    /\ [](Frozen =>
            /\ \A r \in held : handles[r] = frozen
            /\ lastOp = "reader_contains" => lastRet = FrozenContains(lastKey)
            /\ lastOp = "reader_iter" => lastIter = FrozenIter
            /\ lastOp = "reader_len" => lastLen = FrozenLen
            /\ lastOp = "reader_is_empty" => lastRet = FrozenIsEmpty)
    /\ [][Frozen =>
            /\ frozen' = frozen
            /\ phase' = phase
            /\ \A r \in held : r \in held' /\ handles'[r] = handles[r]
         ]_vars

\* two readers hold copies, one made from the other's, and the second reader
\* finds a value in a set of several elements
C13_Witness ==
    /\ Frozen /\ held = Readers /\ Cardinality(held) >= 2
    /\ lastOp = "reader_contains" /\ lastRet /\ reader # 1
    /\ Len(frozen) >= 2

\* C14: is_empty() == (len() == 0) for the builder, the MultiSet and the
\* SortedSet, in every state and for the values the calls returned.
C14_EmptyIffLenZero ==
    /\ Building =>
          /\ MultiSetMut_is_empty(list) = (MultiSetMut_len(list) = 0)
          /\ lastOp = "is_empty" => lastRet = (MultiSetMut_len(list) = 0)
          /\ lastOp = "len" => MultiSetMut_is_empty(list) = (lastLen = 0)
    /\ phase = "FrozenUnordered" =>
          /\ MultiSet_is_empty(frozen) = (MultiSet_len(frozen) = 0)
          /\ lastOp = "multiset_is_empty" => lastRet = (MultiSet_len(frozen) = 0)
          /\ lastOp = "multiset_len" => MultiSet_is_empty(frozen) = (lastLen = 0)
    /\ phase = "FrozenSorted" =>
          /\ SortedSet_is_empty(frozen) = (SortedSet_len(frozen) = 0)
          /\ lastOp = "sortedset_is_empty" => lastRet = (SortedSet_len(frozen) = 0)
          /\ lastOp = "sortedset_len" => SortedSet_is_empty(frozen) = (lastLen = 0)

\* is_empty() called on a builder that holds elements
C14_Witness ==
    /\ Building /\ lastOp = "is_empty" /\ ~lastRet
    /\ Len(list) >= 2

\* C15: from_slice takes the slice as it is: iter() yields the slice's elements
\* in the given order and len() is its length, for a SortedSet too when the
\* slice is unsorted or has duplicates; an empty slice gives an empty set.
C15_FromSliceVerbatim ==
    (origin = "from_slice" /\ Frozen) =>
        /\ FrozenIter = AssocList_keys(prev)
        /\ FrozenLen = Len(prev)
        /\ Len(prev) = 0 => (FrozenIsEmpty /\ FrozenIter = << >>)
        /\ lastOp \in {"multiset_iter", "sortedset_iter"} => lastIter = AssocList_keys(prev)
        /\ lastOp \in {"multiset_len", "sortedset_len"} => lastLen = Len(prev)
        /\ lastOp \in {"multiset_is_empty", "sortedset_is_empty"} => lastRet = (Len(prev) = 0)

\* iter() on a SortedSet made of a slice that is unsorted and has a duplicate
C15_Witness ==
    /\ origin = "from_slice" /\ phase = "FrozenSorted" /\ lastOp = "sortedset_iter"
    /\ \E i \in 1..(Len(prev) - 1) : Borrow(prev[i][1]) > Borrow(prev[i + 1][1])
    /\ \E i, j \in 1..Len(prev) : i < j /\ Borrow(prev[i][1]) = Borrow(prev[j][1])

ReadOps ==
    {"contains", "iter", "len", "is_empty",
     "multiset_contains", "multiset_iter", "multiset_len", "multiset_is_empty",
     "sortedset_contains", "sortedset_iter", "sortedset_len", "sortedset_is_empty",
     "reader_contains", "reader_iter", "reader_len", "reader_is_empty"}

IterOps == {"iter", "multiset_iter", "sortedset_iter", "reader_iter"}

\* C18: contains, iter, len and is_empty leave the collection as it is, on all
\* three types, and two iterations with nothing but reads between them yield
\* the same sequence: the elements of the collection.
C18_PureReads ==
    /\ [][lastOp' \in ReadOps =>
            UNCHANGED << phase, list, frozen, handles, held, origin, arena,
                         log, nIns, nRem, nGone >>
         ]_vars
    /\ [][(lastOp \in IterOps /\ lastOp' \in IterOps) => lastIter' = lastIter]_vars
    /\ []((Building /\ lastOp = "iter") => lastIter = MultiSetMut_iter(list))
    /\ []((Frozen /\ lastOp \in IterOps) => lastIter = FrozenIter)

\* an iteration over a builder of several elements, the builder as it was
C18_Witness ==
    /\ Building /\ lastOp = "iter" /\ Len(lastIter) >= 2
    /\ list = prev

\* C16: no handle derived from an arena is accessed once the arena is gone: no
\* operation on the builder or its sets follows the drop of their arena, and no
\* FFI call on a compiled program reads memory of an arena already freed.
C16_NoUseAfterDrop ==
    /\ arena = "dropped" => lastOp = "drop_arena"
    /\ ffiOp \in {"to_string", "free_prog"} => ~ffiUB

\* the keys of a sequence of elements, in its order
KeysOf(elems) == [i \in 1..Len(elems) |-> Borrow(elems[i])]

\* C21: the SortedSet converted from a builder depends only on the builder's
\* distinct values: two builders holding the same distinct values, in whatever
\* order and multiplicity, convert to SortedSets with the same iter() key
\* sequence and the same len().
C21_OnlyDistinctValues ==
    (phase = "FrozenSorted" /\ phase2 = "FrozenSorted") =>
        /\ KeysOf(SortedSet_iter(frozen)) = KeysOf(SortedSet_iter(frozen2))
        /\ SortedSet_len(frozen) = SortedSet_len(frozen2)
        /\ lastOp = "sortedset_iter" => KeysOf(lastIter) = KeysOf(SortedSet_iter(frozen2))
        /\ lastOp = "sortedset_len" => lastLen = SortedSet_len(frozen2)

\* both builders converted, the second one holding the first one's values in
\* another order and with more repetitions, and the first set iterated
C21_Witness ==
    /\ phase = "FrozenSorted" /\ phase2 = "FrozenSorted" /\ lastOp = "sortedset_iter"
    /\ Len(prev) >= 2 /\ Len(list2) > Len(prev)
    /\ Borrow(list2[1][1]) # Borrow(prev[1][1])
    /\ Len(frozen) >= 2

\* the last FFI call took an error buffer
TookErrBuf == ffiOp \in {"from_text", "to_string"}

\* C22: a failing hackc_compile_hhas_from_text_cpp_ffi or
\* hackc_hhas_to_string_cpp_ffi returns null and writes the message and a NUL
\* to the error buffer only when both fit in buf_len bytes, leaving the buffer
\* untouched otherwise, and for every buf_len, zero and negative included, no
\* byte at an index >= buf_len is written.
C22_ErrBufBounded ==
    /\ (TookErrBuf /\ failed) =>
          /\ ffiRet = "null"
          /\ IF Len(errMsg) < bufLen
             THEN /\ \A i \in 1..Len(errMsg) : errBuf[i] = errMsg[i]
                  /\ errBuf[Len(errMsg) + 1] = 0
             ELSE errBuf = FreshMem
    /\ TookErrBuf =>
          \A i \in 0..MaxErrLen : i >= bufLen => errBuf[i + 1] = Untouched

====
